---- MODULE Spec2Model ----
(***************************************************************************)
(* Fee quoting of the cross-chain price aggregator.                        *)
(*                                                                         *)
(* The specifications share the variables below.                           *)
(*   Spec          the per-token fee flow of main (index.js): the Hop      *)
(*                 adapter calculateHopSwapFees for both directions, then  *)
(*                 the OpenOcean adapter calculateOpenOceanSwapFees where  *)
(*                 main falls back.                                        *)
(*   SpecCombined  one call of calculateCombinedFees (combinedFees.js).    *)
(*   SpecMath      the fee arithmetic of both adapters as pure functions   *)
(*                 over a grid of amounts.                                 *)
(*   SpecOracle    one call of fetchChainPrices (priceUtils.js).           *)
(*   SpecPipeline  fetchTokenPrices for one common token, then the fee     *)
(*                 flow of main on the prices it returned.                 *)
(*   SpecAggregate aggregateTokens and the ranking of getSortedTokens      *)
(*                 (tokenDiscovery.js) as functions of a pool list.        *)
(*   SpecDiscovery discoverAllTokensSorted over the two subgraphs.         *)
(*   SpecConcurrent  the fee flow of main for two common tokens whose      *)
(*                 callbacks run concurrently.                             *)
(*   SpecScale     scaleValue and descaleValue (bigNumberUtils.js) over a  *)
(*                 grid of amounts and decimal counts.                     *)
(*   SpecPoolPrice computePoolPrice (bigNumberUtils.js) over a grid of     *)
(*                 square-root prices and decimal counts.                  *)
(*   SpecPartial   aggregateTokens on pools whose liquidity or volumeUSD   *)
(*                 may be missing.                                         *)
(*   SpecTermination  Spec with weak fairness of every request's steps.    *)
(*   SpecList      two overlapping calls of fetchTokenPrices and the       *)
(*                 module-level commonTokensList.                          *)
(*                                                                         *)
(* The state of main is indexed by the slot of a common token.  Spec runs  *)
(* the map callback for one common token, in slot 1; a specification of    *)
(* concurrent callbacks starts from a token in every slot.                 *)
(*                                                                         *)
(* Encoding of JavaScript values.  A price is a record [kind, val]: a      *)
(* number, NaN, or the string '[Object]' that fetchChainPrices stores for  *)
(* a symbol without a price.  A fee result is a record [status, bps,       *)
(* usd4]: status "fee" is the string `${bps} bps ($${usd})` with usd4 the  *)
(* dollar amount in units of 0.0001 (toFixed(4)); the other statuses are   *)
(* the literal results null, "Not supported", "Route not supported" and    *)
(* "Error calculating fees".                                               *)
(***************************************************************************)
EXTENDS Integers, Sequences, FiniteSets, TLC

\* Bounds of the model.
MaxPrice == 3
MaxDecimals == 2
MaxFee == 2
MaxOut == 2
MaxAmount == 8
MaxSymbols == 7
MaxPools == 2
MaxLiquidity == 2
MaxChainPools == 1
MaxExtraDecimals == 2
MaxSqrtMantissa == 3
MaxSqrtShift == 2

\* Program constants.
ToFixedCap == 8
BpsScale == 10000
UsdAmount == 1
UsdDigits == 4
DECIMAL_PLACES == 40

Slots == {1, 2}
Symbols == {"USDC", "DAI"}
Dirs == {"EB", "BE"}

\* part_002:18  the whitelist of the Hop bridging module.
supportedHopTokens == {"WETH", "USDC", "ETH"}

-----------------------------------------------------------------------------
\* JavaScript values

NumPrice(n) == [kind |-> "num", val |-> n]
NaNPrice == [kind |-> "NaN", val |-> 0]
AbsentMarker == [kind |-> "marker", val |-> 0]
PriceVals == {NaNPrice, AbsentMarker} \cup {NumPrice(n) : n \in 0..MaxPrice}

\* !p
Falsy(p) == p.kind = "NaN" \/ (p.kind = "num" /\ p.val = 0)
\* isNaN(p): Number('[Object]') is NaN
IsNaN(p) == p.kind \in {"NaN", "marker"}

Res(st, b, u) == [status |-> st, bps |-> b, usd4 |-> u]
Pending == Res("pending", 0, 0)
NullRes == Res("null", 0, 0)
NotSupported == Res("Not supported", 0, 0)
RouteNotSupported == Res("Route not supported", 0, 0)
ErrorCalculating == Res("Error calculating fees", 0, 0)
FeeRes(b, u) == Res("fee", b, u)

\* A provider-returned amount: an integer string, or something BigNumber.from rejects.
IntVal(n) == [ok |-> TRUE, val |-> n]
BadVal == [ok |-> FALSE, val |-> 0]

-----------------------------------------------------------------------------
\* Arithmetic

RECURSIVE Pow10(_)
Pow10(n) == IF n <= 0 THEN 1 ELSE 10 * Pow10(n - 1)

Min(a, b) == IF a <= b THEN a ELSE b
Abs(a) == IF a < 0 THEN 0 - a ELSE a

\* BigNumber.div: the quotient truncated toward zero (den # 0).
TruncDiv(num, den) ==
    IF (num >= 0) = (den > 0) THEN Abs(num) \div Abs(den)
    ELSE 0 - (Abs(num) \div Abs(den))

\* Number.prototype.toFixed on num/den >= 0: the nearest integer, the larger on a tie.
RoundHalfUp(num, den) == (2 * num + den) \div (2 * den)

-----------------------------------------------------------------------------
\* Fee arithmetic of the two adapters

\* part_004:43-48 and part_003:99-103: usdAmount / tokenPriceUSD, printed with
\* toFixed(min(decimals, 8)), parsed by parseUnits(_, decimals).
amountInMinimalUnits(price, decimals) ==
    LET precision == Min(decimals, ToFixedCap)
    IN  RoundHalfUp(UsdAmount * Pow10(precision), price) * Pow10(decimals - precision)

\* calculateFeeBasisPoints with the scale of line 99 mistyped as 100000.
calculateFeeBasisPoints_WrongScale(feeAmount, totalAmount) ==
    IF ~feeAmount.ok \/ ~totalAmount.ok THEN 0
    ELSE IF totalAmount.val = 0 THEN 0
    ELSE TruncDiv(feeAmount.val * BpsScale * 10, totalAmount.val)

\* part_004:91-103
calculateFeeBasisPoints(feeAmount, totalAmount) ==
    IF ~feeAmount.ok \/ ~totalAmount.ok THEN 0
    ELSE IF totalAmount.val = 0 THEN 0
    ELSE TruncDiv(feeAmount.val * BpsScale, totalAmount.val)

\* part_004:112-119 followed by the caller's toFixed(4): the dollar fee in 1/10000.
calculateFeeUsd(feeAmount, tokenPriceUSD, decimals) ==
    IF ~feeAmount.ok THEN 0
    ELSE IF feeAmount.val >= 0
         THEN RoundHalfUp(feeAmount.val * tokenPriceUSD * Pow10(UsdDigits), Pow10(decimals))
         ELSE 0 - RoundHalfUp((0 - feeAmount.val) * tokenPriceUSD * Pow10(UsdDigits),
                              Pow10(decimals))

\* part_004:61-65: the string calculateHopSwapFees returns for a send-data answer.
HopFeeString(totalFee, amount, tokenPriceUSD, decimals) ==
    FeeRes(calculateFeeBasisPoints(totalFee, IntVal(amount)),
           calculateFeeUsd(totalFee, tokenPriceUSD, decimals))

\* OpenOceanFeeString without the test of line 125.
OpenOceanFeeString_NoClamp(minimalAmount, outAmount, tokenPriceUSD, decimals) ==
    IF ~outAmount.ok THEN RouteNotSupported
    ELSE IF minimalAmount = 0 THEN RouteNotSupported
    ELSE LET feeBN == minimalAmount - outAmount.val
         IN  FeeRes(TruncDiv(feeBN * BpsScale, minimalAmount),
                    calculateFeeUsd(IntVal(feeBN), tokenPriceUSD, decimals))

\* part_003:120-132 with the catch of 136-139: the result for a code-200 quote.
OpenOceanFeeString(minimalAmount, outAmount, tokenPriceUSD, decimals) ==
    IF ~outAmount.ok THEN RouteNotSupported
    ELSE IF minimalAmount < outAmount.val THEN FeeRes(0, 0)
    ELSE IF minimalAmount = 0 THEN RouteNotSupported
    ELSE LET feeBN == minimalAmount - outAmount.val
         IN  FeeRes(TruncDiv(feeBN * BpsScale, minimalAmount),
                    calculateFeeUsd(IntVal(feeBN), tokenPriceUSD, decimals))

\* part_004:18 and part_003:83
InvalidPrice(tokenPriceUSD) ==
    Falsy(tokenPriceUSD) \/ IsNaN(tokenPriceUSD) \/ tokenPriceUSD = AbsentMarker

\* part_003:34-49: what isTokenSupported returns for each answer of the token list.
TokenListOutcomes == {"throw", "badShape", "listed", "notListed"}
isTokenSupported(outcome) == outcome = "listed"

-----------------------------------------------------------------------------
VARIABLES
    tok,            \* [Slots -> the commonTokens entry with its two prices]
    pc,             \* [Slots -> position of the map callback of main]
    dir,            \* [Slots -> the direction being quoted]
    fees,           \* [Slots -> [Dirs -> feesEthToBase / feesBaseToEth]]
    hopRes,         \* [Slots -> [Dirs -> what calculateHopSwapFees returned]]
    originalConsoleError, \* [Slots -> the console.error saved by the running Hop call]
    supportedIn,    \* [Slots -> supportedIn of the running OpenOcean call]
    supportedOut,   \* [Slots -> supportedOut of the running OpenOcean call]
    log,            \* [Slots -> [Dirs -> the calls made for the request, in order]]
    consoleError,   \* the process-wide console.error: "original" or "noop"
    creq,           \* the arguments of the calculateCombinedFees call
    cres,           \* its outcome
    mathIn,         \* SpecMath: fee, principal, price and decimals
    mathHop,        \* SpecMath: the Hop adapter's result for them
    mathOO,         \* SpecMath: the OpenOcean adapter's result for them
    symbols,        \* the symbols passed to fetchTokenPrices / fetchChainPrices
    apiKey,         \* whether fetchTokenPrices finds an API key
    tpc,            \* position of fetchTokenPrices
    chain,          \* the chain argument of the running fetchChainPrices
    fpc,            \* position of fetchChainPrices
    iBatch,         \* its loop variable i
    chainPrices,    \* its chainPrices object: a function on the object's keys
    ethPrices,      \* fetchTokenPrices: what the 'ethereum' call returned
    results,        \* fetchTokenPrices: its results object
    netLog,         \* the requests sent and the delays taken, in order
    failed,         \* <<chain, i>> of the batches whose request threw
    supplied,       \* <<chain, symbol, value>> of the usable USD entries received
    aggPools,       \* SpecAggregate: the pools given to aggregateTokens
    aggPc,          \* SpecAggregate: "in", "aggregated" or "sorted"
    aggTokensMap,   \* SpecAggregate: tokensMap, its entries in insertion order
    aggSorted,      \* SpecAggregate: the list getSortedTokens makes of it
    subgraph,       \* [Chains -> the pools the chain's subgraph holds]
    apc,            \* position of discoverAllTokensSorted
    dpc,            \* [Chains -> position of the chain's getSortedTokens]
    sortedTokens,   \* [Chains -> what getSortedTokens resolved with]
    commonTokens,   \* the commonTokens of discoverAllTokensSorted
    scaleIn,        \* SpecScale: an integer amount, a human amount and decimals
    descaled,       \* SpecScale: descaleValue of the integer amount
    roundTrip,      \* SpecScale: scaleValue of descaled
    scaled,         \* SpecScale: scaleValue of the human amount
    poolIn,         \* SpecPoolPrice: sqrtPriceX96 and the two decimal counts
    poolPrice,      \* SpecPoolPrice: what computePoolPrice returns for them
    ftp,            \* SpecList: [Calls -> the state of a fetchTokenPrices call]
    commonTokensList \* the module-level commonTokensList of priceUtils.js

mainVars == <<tok, pc, dir, fees, hopRes, originalConsoleError, supportedIn, supportedOut,
              log, consoleError>>
combinedVars == <<creq, cres>>
mathVars == <<mathIn, mathHop, mathOO>>
oracleVars == <<symbols, apiKey, tpc, chain, fpc, iBatch, chainPrices, ethPrices, results,
                netLog, failed, supplied>>
feeVars == <<mainVars, combinedVars, mathVars>>
discoveryVars == <<aggPools, aggPc, aggTokensMap, aggSorted, subgraph, apc, dpc, sortedTokens,
                   commonTokens>>
scaleVars == <<scaleIn, descaled, roundTrip, scaled>>
utilVars == <<poolIn, poolPrice, ftp, commonTokensList>>
stageVars == <<oracleVars, discoveryVars, scaleVars, utilVars>>
vars == <<feeVars, stageVars>>

NoToken == [present |-> FALSE, symbol |-> "", ethPrice |-> NaNPrice, basePrice |-> NaNPrice,
            ethDecimals |-> 0, baseDecimals |-> 0]
TokenRecords ==
    [present : {TRUE}, symbol : Symbols, ethPrice : PriceVals, basePrice : PriceVals,
     ethDecimals : 0..MaxDecimals, baseDecimals : 0..MaxDecimals]

priceOf(t, d) == IF d = "EB" THEN t.ethPrice ELSE t.basePrice
decimalsOf(t, d) == IF d = "EB" THEN t.ethDecimals ELSE t.baseDecimals

NoRequest == [symbol |-> "", sourceChain |-> "", tokenPriceUSD |-> NaNPrice, decimals |-> 0,
              hasAddress |-> FALSE]
IdleCombined == creq = NoRequest /\ cres = "idle"
IdleMath == /\ mathIn = [fee |-> 0, principal |-> 0, price |-> 1, decimals |-> 0]
            /\ mathHop = Pending
            /\ mathOO = Pending
IdleOracle ==
    /\ symbols = <<>>
    /\ apiKey = TRUE
    /\ tpc = "idle"
    /\ chain = "ethereum"
    /\ fpc = "idle"
    /\ iBatch = 0
    /\ chainPrices = <<>>
    /\ ethPrices = <<>>
    /\ results = <<>>
    /\ netLog = <<>>
    /\ failed = {}
    /\ supplied = {}
Chains == {"ethereum", "base"}
IdleDiscovery ==
    /\ aggPools = <<>>
    /\ aggPc = "idle"
    /\ aggTokensMap = <<>>
    /\ aggSorted = <<>>
    /\ subgraph = [c \in Chains |-> <<>>]
    /\ apc = "idle"
    /\ dpc = [c \in Chains |-> "idle"]
    /\ sortedTokens = [c \in Chains |-> <<>>]
    /\ commonTokens = <<>>
\* A decimal number is mant * 10^(-scale); scale -1 marks a value not yet computed.
Decimal(m, s) == [mant |-> m, scale |-> s]
NoDecimal == Decimal(0, -1)
BigNumberOf(n) == [status |-> "value", val |-> n]
NoBigNumber == [status |-> "pending", val |-> 0]
IdleScale ==
    /\ scaleIn = [x |-> 0, decimals |-> 0, human |-> Decimal(0, 0), humanDecimals |-> 0]
    /\ descaled = NoDecimal
    /\ roundTrip = NoBigNumber
    /\ scaled = NoBigNumber
\* A number mant * 2^exp2 * 10^exp10
Num(m, e2, e10) == [mant |-> m, exp2 |-> e2, exp10 |-> e10]
NoPoolPrice == [mant |-> -1, exp10 |-> 0]
Calls == {1, 2}
NoCall == [symbols |-> <<>>, apiKey |-> FALSE, pc |-> "idle", ethPrices |-> <<>>,
           basePrices |-> <<>>]
IdleUtil ==
    /\ poolIn = [sqrtPriceX96 |-> Num(0, 0, 0), token0Decimals |-> 0, token1Decimals |-> 0]
    /\ poolPrice = NoPoolPrice
    /\ ftp = [c \in Calls |-> NoCall]
    /\ commonTokensList = <<>>
IdleStages == IdleOracle /\ IdleDiscovery /\ IdleScale /\ IdleUtil
IdleMain ==
    /\ tok = [s \in Slots |-> NoToken]
    /\ pc = [s \in Slots |-> "none"]
    /\ dir = [s \in Slots |-> "EB"]
    /\ fees = [s \in Slots |-> [d \in Dirs |-> Pending]]
    /\ hopRes = [s \in Slots |-> [d \in Dirs |-> Pending]]
    /\ originalConsoleError = [s \in Slots |-> "original"]
    /\ supportedIn = [s \in Slots |-> FALSE]
    /\ supportedOut = [s \in Slots |-> FALSE]
    /\ log = [s \in Slots |-> [d \in Dirs |-> <<>>]]
    /\ consoleError = "original"

\* main with one common token: fetchTokenPrices has returned and the map callback
\* of part_002:156 is about to run for it.
Init ==
    /\ \E t \in TokenRecords : tok = [s \in Slots |-> IF s = 1 THEN t ELSE NoToken]
    /\ pc = [s \in Slots |-> IF s = 1 THEN "start" ELSE "none"]
    /\ dir = [s \in Slots |-> "EB"]
    /\ fees = [s \in Slots |-> [d \in Dirs |-> Pending]]
    /\ hopRes = [s \in Slots |-> [d \in Dirs |-> Pending]]
    /\ originalConsoleError = [s \in Slots |-> "original"]
    /\ supportedIn = [s \in Slots |-> FALSE]
    /\ supportedOut = [s \in Slots |-> FALSE]
    /\ log = [s \in Slots |-> [d \in Dirs |-> <<>>]]
    /\ consoleError = "original"
    /\ IdleCombined
    /\ IdleMath
    /\ IdleStages

Logged(s, events) == log' = [log EXCEPT ![s][dir[s]] = @ \o events]

\* part_002:157-163
MainStart(s) ==
    /\ pc[s] = "start"
    /\ pc' = [pc EXCEPT ![s] = IF Falsy(tok[s].ethPrice) \/ Falsy(tok[s].basePrice)
                               THEN "skipped" ELSE "hop"]
    /\ UNCHANGED <<tok, dir, fees, hopRes, originalConsoleError, supportedIn, supportedOut, log,
                   consoleError, combinedVars, mathVars, stageVars>>

\* main stores what calculateHopSwapFees returned (part_002:166, 174) and goes on
\* to the Hop call of the other direction, then to the fallback tests.
HopReturns(s, r) ==
    /\ fees' = [fees EXCEPT ![s][dir[s]] = r]
    /\ hopRes' = [hopRes EXCEPT ![s][dir[s]] = r]
    /\ IF dir[s] = "EB"
       THEN pc' = [pc EXCEPT ![s] = "hop"] /\ dir' = [dir EXCEPT ![s] = "BE"]
       ELSE pc' = [pc EXCEPT ![s] = "oo"] /\ dir' = [dir EXCEPT ![s] = "EB"]

\* toFixed and parseUnits (part_004:44, 48) throw only for decimals outside 0..100 or
\* an amount of 1e21 and more, which no price and decimal count of the model gives.
\* part_004:15-51: calculateHopSwapFees up to the await of bridge.getSendData.
calculateHopSwapFees(s) ==
    /\ pc[s] = "hop"
    /\ LET tokenPriceUSD == priceOf(tok[s], dir[s])
       IN  IF InvalidPrice(tokenPriceUSD)
           THEN /\ HopReturns(s, NullRes)
                /\ Logged(s, <<"hop">>)
                /\ UNCHANGED <<originalConsoleError, consoleError>>
           ELSE \E hopInstance \in {"ok", "throw"}, bridge \in {"ok", "throw"} :
                  /\ originalConsoleError' = [originalConsoleError EXCEPT ![s] = consoleError]
                  /\ IF hopInstance = "throw"
                     THEN /\ consoleError' = consoleError
                          /\ HopReturns(s, ErrorCalculating)
                          /\ Logged(s, <<"hop">>)
                     ELSE IF bridge = "throw"
                     THEN /\ consoleError' = consoleError
                          /\ HopReturns(s, NotSupported)
                          /\ Logged(s, <<"hop", "bridge">>)
                     ELSE /\ consoleError' = "noop"
                          /\ pc' = [pc EXCEPT ![s] = "hopWait"]
                          /\ Logged(s, <<"hop", "bridge", "getSendData">>)
                          /\ UNCHANGED <<dir, fees, hopRes>>
    /\ UNCHANGED <<tok, supportedIn, supportedOut, combinedVars, mathVars, stageVars>>

SendDataOutcomes ==
    {[kind |-> "throw", totalFee |-> BadVal], [kind |-> "noData", totalFee |-> BadVal],
     [kind |-> "data", totalFee |-> BadVal]}
    \cup {[kind |-> "data", totalFee |-> IntVal(f)] : f \in 0..MaxFee}

\* part_004:51-72: calculateHopSwapFees after bridge.getSendData settled.
getSendDataSettles(s) ==
    /\ pc[s] = "hopWait"
    /\ \E sendData \in SendDataOutcomes :
          LET tokenPriceUSD == priceOf(tok[s], dir[s]).val
              decimals == decimalsOf(tok[s], dir[s])
              amount == amountInMinimalUnits(tokenPriceUSD, decimals)
          IN  HopReturns(s, IF sendData.kind = "data"
                            THEN HopFeeString(sendData.totalFee, amount, tokenPriceUSD, decimals)
                            ELSE RouteNotSupported)
    /\ consoleError' = originalConsoleError[s]
    /\ UNCHANGED <<tok, originalConsoleError, supportedIn, supportedOut, log, combinedVars, mathVars, stageVars>>

\* NeedsFallback testing for "Not supported" alone.
NeedsFallback_OnlyNotSupported(r) == r.status = "Not supported"

\* NeedsFallback true of every string the Hop adapter returns.
NeedsFallback_AnyString(r) == r.status # "null"

\* part_002:184, 197: the results of the Hop adapter after which main falls back.
NeedsFallback(r) == r.status \in {"Route not supported", "Not supported"}

\* main stores what calculateOpenOceanSwapFees returned (part_002:186, 199), or keeps
\* the Hop result, and goes on to the other direction, then to the return of 211.
FallbackDone(s) ==
    IF dir[s] = "EB"
    THEN pc' = [pc EXCEPT ![s] = "oo"] /\ dir' = [dir EXCEPT ![s] = "BE"]
    ELSE pc' = [pc EXCEPT ![s] = "done"] /\ dir' = dir

\* part_002:184, 197 when the test fails: the Hop result stands.
MainKeepsHopResult(s) ==
    /\ pc[s] = "oo"
    /\ ~NeedsFallback(fees[s][dir[s]])
    /\ FallbackDone(s)
    /\ UNCHANGED <<tok, fees, hopRes, originalConsoleError, supportedIn, supportedOut, log, consoleError,
                   combinedVars, mathVars, stageVars>>

\* part_002:184-186, 197-199 and part_003:82-88: the fallback call up to the await
\* of the first isTokenSupported.
calculateOpenOceanSwapFees(s) ==
    /\ pc[s] = "oo"
    /\ NeedsFallback(fees[s][dir[s]])
    /\ IF InvalidPrice(priceOf(tok[s], dir[s]))
       THEN /\ fees' = [fees EXCEPT ![s][dir[s]] = NullRes]
            /\ FallbackDone(s)
            /\ Logged(s, <<"oo">>)
       ELSE /\ pc' = [pc EXCEPT ![s] = "ooIn"]
            /\ Logged(s, <<"oo", "tokenList">>)
            /\ UNCHANGED <<dir, fees>>
    /\ UNCHANGED <<tok, hopRes, originalConsoleError, supportedIn, supportedOut, consoleError,
                   combinedVars, mathVars, stageVars>>

\* part_003:88-89: the token list for inTokenAddress settled; the one for
\* outTokenAddress is requested.
tokenListInSettles(s) ==
    /\ pc[s] = "ooIn"
    /\ \E outcome \in TokenListOutcomes :
          supportedIn' = [supportedIn EXCEPT ![s] = isTokenSupported(outcome)]
    /\ pc' = [pc EXCEPT ![s] = "ooOut"]
    /\ Logged(s, <<"tokenList">>)
    /\ UNCHANGED <<tok, dir, fees, hopRes, originalConsoleError, supportedOut, consoleError,
                   combinedVars, mathVars, stageVars>>

LegUnsupported_BothLegs(in, out) == ~in /\ ~out
\* part_003:90: the legs after which the adapter gives up before quoting.
LegUnsupported(in, out) == ~in \/ ~out

\* part_003:89-117: the second token list settled; the quote is requested when both
\* legs are supported.
tokenListOutSettles(s) ==
    /\ pc[s] = "ooOut"
    /\ \E outcome \in TokenListOutcomes :
          /\ supportedOut' = [supportedOut EXCEPT ![s] = isTokenSupported(outcome)]
          /\ IF LegUnsupported(supportedIn[s], isTokenSupported(outcome))
             THEN /\ fees' = [fees EXCEPT ![s][dir[s]] = RouteNotSupported]
                  /\ FallbackDone(s)
                  /\ log' = log
             ELSE /\ pc' = [pc EXCEPT ![s] = "ooQuote"]
                  /\ Logged(s, <<"quote">>)
                  /\ UNCHANGED <<dir, fees>>
    /\ UNCHANGED <<tok, hopRes, originalConsoleError, supportedIn, consoleError,
                   combinedVars, mathVars, stageVars>>

QuoteOutcomes ==
    {[kind |-> "throw", outAmount |-> BadVal], [kind |-> "notOk", outAmount |-> BadVal],
     [kind |-> "data", outAmount |-> BadVal]}
    \cup {[kind |-> "data", outAmount |-> IntVal(n)] : n \in (0 - 1)..MaxOut}

\* part_003:117-139: the quote settled.
quoteSettles(s) ==
    /\ pc[s] = "ooQuote"
    /\ \E response \in QuoteOutcomes :
          LET tokenPriceUSD == priceOf(tok[s], dir[s]).val
              decimals == decimalsOf(tok[s], dir[s])
              minimalAmount == amountInMinimalUnits(tokenPriceUSD, decimals)
          IN  fees' = [fees EXCEPT ![s][dir[s]] =
                        IF response.kind = "data"
                        THEN OpenOceanFeeString(minimalAmount, response.outAmount,
                                                tokenPriceUSD, decimals)
                        ELSE RouteNotSupported]
    /\ FallbackDone(s)
    /\ UNCHANGED <<tok, hopRes, originalConsoleError, supportedIn, supportedOut, log, consoleError,
                   combinedVars, mathVars, stageVars>>

Next ==
    \E s \in Slots :
        \/ MainStart(s)
        \/ calculateHopSwapFees(s)
        \/ getSendDataSettles(s)
        \/ MainKeepsHopResult(s)
        \/ calculateOpenOceanSwapFees(s)
        \/ tokenListInSettles(s)
        \/ tokenListOutSettles(s)
        \/ quoteSettles(s)

Spec == Init /\ [][Next]_vars

\* The steps of the callback of one common token
RequestStep(s) ==
    \/ MainStart(s)
    \/ calculateHopSwapFees(s)
    \/ getSendDataSettles(s)
    \/ MainKeepsHopResult(s)
    \/ calculateOpenOceanSwapFees(s)
    \/ tokenListInSettles(s)
    \/ tokenListOutSettles(s)
    \/ quoteSettles(s)

\* The event loop runs every continuation that is ready, and every provider call
\* settles (it returns, fails or times out: part_003:117 and the SDK's requests).
Fairness == \A s \in Slots : WF_vars(RequestStep(s))

SpecTermination == Init /\ [][Next]_vars /\ Fairness

-----------------------------------------------------------------------------
\* calculateCombinedFees (combinedFees.js)

\* part_004:121 and part_003:142: what the two adapter modules export.
hopFeesExports == {"calculateHopSwapFees"}
openoceanFeesExports == {"calculateOpenOceanSwapFees"}

\* combinedFees.js:2: const { calculateHopSwapFees, SUPPORTED_TOKENS } = require('./hopFees')
\* binds a name the module does not export to undefined.
SUPPORTED_TOKENS == IF "SUPPORTED_TOKENS" \in hopFeesExports THEN "defined" ELSE "undefined"

CombinedRequests ==
    [symbol : Symbols, sourceChain : {"ethereum", "base"}, tokenPriceUSD : PriceVals,
     decimals : 0..MaxDecimals, hasAddress : BOOLEAN]

InitCombined ==
    /\ IdleMain
    /\ IdleMath
    /\ IdleStages
    /\ creq \in CombinedRequests
    /\ cres = "idle"

\* combinedFees.js:15-17: SUPPORTED_TOKENS.includes(...) is evaluated outside every
\* try block; reading a property of undefined throws a TypeError, which rejects the
\* promise the async function returned.  Lines 19-95 return an object on every path.
calculateCombinedFees ==
    /\ creq # NoRequest
    /\ cres = "idle"
    /\ cres' = IF SUPPORTED_TOKENS = "undefined" THEN "TypeError" ELSE "returned"
    /\ UNCHANGED <<creq, mainVars, mathVars, stageVars>>

NextCombined == calculateCombinedFees

SpecCombined == InitCombined /\ [][NextCombined]_vars

-----------------------------------------------------------------------------
\* The fee arithmetic over a grid of amounts

MathInputs ==
    [fee : (0 - MaxAmount)..MaxAmount, principal : 0..MaxAmount, price : 1..MaxPrice,
     decimals : 0..MaxDecimals]

InitMath ==
    /\ IdleMain
    /\ IdleCombined
    /\ IdleStages
    /\ mathIn \in MathInputs
    /\ mathHop = Pending
    /\ mathOO = Pending

\* part_004:61-65 on sendData.totalFee = fee and amountInMinimalUnits = principal.
ApplyHopFee ==
    /\ mathHop = Pending
    /\ mathHop' = HopFeeString(IntVal(mathIn.fee), mathIn.principal, mathIn.price,
                               mathIn.decimals)
    /\ UNCHANGED <<mathIn, mathOO, mainVars, combinedVars, stageVars>>

\* part_003:120-132 on minimalAmount = principal and outAmount = principal - fee.
ApplyOpenOceanFee ==
    /\ mathOO = Pending
    /\ mathOO' = OpenOceanFeeString(mathIn.principal, IntVal(mathIn.principal - mathIn.fee),
                                    mathIn.price, mathIn.decimals)
    /\ UNCHANGED <<mathIn, mathHop, mainVars, combinedVars, stageVars>>

NextMath == ApplyHopFee \/ ApplyOpenOceanFee

SpecMath == InitMath /\ [][NextMath]_vars

-----------------------------------------------------------------------------
\* The price oracle client (priceUtils.js, bigNumberUtils.js from line 64)

\* bigNumberUtils.js:99
batchSize == 3

\* The symbols a caller asks for are a prefix of SymbolNames; ForeignSymbols are
\* symbols no caller asks for ("USDC" in another case).
SymbolNames == <<"USDC", "DAI", "WETH", "LINK", "UNI", "AAVE", "MKR", "SNX", "CRV">>
ForeignSymbols == {"usdc"}
RequestLists == {SubSeq(SymbolNames, 1, n) : n \in 0..MaxSymbols}

SeqRange(s) == {s[k] : k \in DOMAIN s}

\* One element of response.data.data, bigNumberUtils.js:121-124: usd tells whether
\* token.prices holds an entry of currency 'usd', value is the value of that entry.
ValueStrings == {"", "0", "1", "abc"}
Entries == {[usd |-> FALSE, value |-> ""]} \cup [usd : {TRUE}, value : ValueStrings]

\* bigNumberUtils.js:123-125: usdPrice && usdPrice.value
UsableEntry(e) == e.usd /\ e.value # ""

\* bigNumberUtils.js:126: parseFloat of the value string
parseFloat(v) == CASE v = "0" -> NumPrice(0) [] v = "1" -> NumPrice(1) [] OTHER -> NaNPrice

\* bigNumberUtils.js:111-134: what the await of axios.get can bring for a batch: a
\* rejection, a body without data, or a data array with an entry for some of the
\* batch's symbols and for some symbols that were not asked for (those with a price).
EntriesFor(s) == IF s \in ForeignSymbols THEN {[usd |-> TRUE, value |-> "1"]} ELSE Entries
Responses(batch) ==
    {[kind |-> "throw", data |-> <<>>], [kind |-> "noData", data |-> <<>>]} \cup
    {[kind |-> "data", data |-> d] :
        d \in UNION {{f \in [S -> Entries] : \A s \in S : f[s] \in EntriesFor(s)} :
                        S \in SUBSET (SeqRange(batch) \cup ForeignSymbols)}}

UsableSymbols(r) == {s \in DOMAIN r.data : UsableEntry(r.data[s])}

InitialChainPrices_Zero(syms) == [k \in SeqRange(syms) |-> NumPrice(0)]
\* bigNumberUtils.js:91-96
InitialChainPrices(syms) == [k \in SeqRange(syms) |-> AbsentMarker]

ProcessResponse_DropsOnFailure(prices, r) ==
    IF r.kind = "throw" THEN [k \in DOMAIN prices |-> AbsentMarker]
    ELSE IF r.kind # "data" THEN prices
    ELSE [k \in DOMAIN prices \cup UsableSymbols(r) |->
            IF k \in UsableSymbols(r) THEN parseFloat(r.data[k].value) ELSE prices[k]]
\* bigNumberUtils.js:120-134: chainPrices[token.symbol] is assigned for every usable
\* entry of the response, whatever its symbol; the catch block only logs.
ProcessResponse(prices, r) ==
    IF r.kind # "data" THEN prices
    ELSE [k \in DOMAIN prices \cup UsableSymbols(r) |->
            IF k \in UsableSymbols(r) THEN parseFloat(r.data[k].value) ELSE prices[k]]

batchSymbols_OneMore(i) == SubSeq(symbols, i + 1, Min(i + batchSize + 1, Len(symbols)))
\* bigNumberUtils.js:101: symbols.slice(i, i + batchSize)
batchSymbols(i) == SubSeq(symbols, i + 1, Min(i + batchSize, Len(symbols)))

\* bigNumberUtils.js:101-118: the request of the batch at i is sent
SendBatch(c, i) ==
    netLog' = Append(netLog, [kind |-> "get", chain |-> c, batch |-> batchSymbols(i)])

\* bigNumberUtils.js:77-111: fetchChainPrices up to its first await
StartChain(c) ==
    /\ chain' = c
    /\ chainPrices' = InitialChainPrices(symbols)
    /\ iBatch' = 0
    /\ IF Len(symbols) > 0
       THEN fpc' = "await" /\ SendBatch(c, 0)
       ELSE fpc' = "returned" /\ UNCHANGED netLog

\* one call fetchChainPrices(symbols, 'ethereum', apiKey)
InitOracle ==
    /\ IdleMain
    /\ IdleCombined
    /\ IdleMath
    /\ IdleDiscovery
    /\ IdleScale
    /\ IdleUtil
    /\ symbols \in RequestLists
    /\ apiKey = TRUE
    /\ tpc = "idle"
    /\ chain = "ethereum"
    /\ fpc = "call"
    /\ iBatch = 0
    /\ chainPrices = <<>>
    /\ ethPrices = <<>>
    /\ results = <<>>
    /\ netLog = <<>>
    /\ failed = {}
    /\ supplied = {}

fetchChainPrices ==
    /\ fpc = "call"
    /\ tpc = "idle"
    /\ StartChain(chain)
    /\ UNCHANGED <<symbols, apiKey, tpc, ethPrices, results, failed, supplied, feeVars, discoveryVars, scaleVars, utilVars>>

\* bigNumberUtils.js:111-142: the await of axios.get settles; the response is
\* processed or the rejection is caught; then the delay starts or the loop ends and
\* chainPrices is returned.
axiosGetSettles ==
    /\ fpc = "await"
    /\ \E r \in Responses(batchSymbols(iBatch)) :
        /\ chainPrices' = ProcessResponse(chainPrices, r)
        /\ failed' = IF r.kind = "throw" THEN failed \cup {<<chain, iBatch>>} ELSE failed
        /\ supplied' = supplied \cup {<<chain, s, r.data[s].value>> : s \in UsableSymbols(r)}
    /\ IF iBatch + batchSize < Len(symbols)
       THEN /\ fpc' = "delay"
            /\ netLog' = Append(netLog, [kind |-> "delay", chain |-> chain, batch |-> <<>>])
            /\ UNCHANGED iBatch
       ELSE /\ fpc' = "returned"
            /\ iBatch' = iBatch + batchSize
            /\ UNCHANGED netLog
    /\ UNCHANGED <<symbols, apiKey, tpc, chain, ethPrices, results, feeVars, discoveryVars, scaleVars, utilVars>>

\* bigNumberUtils.js:137-139, 100-111: the 250 ms timer fires and the next batch
\* is requested
delayElapses ==
    /\ fpc = "delay"
    /\ iBatch' = iBatch + batchSize
    /\ SendBatch(chain, iBatch + batchSize)
    /\ fpc' = "await"
    /\ UNCHANGED <<symbols, apiKey, tpc, chain, chainPrices, ethPrices, results, failed,
                   supplied, feeVars, discoveryVars, scaleVars, utilVars>>

NextOracle == fetchChainPrices \/ axiosGetSettles \/ delayElapses

SpecOracle == InitOracle /\ [][NextOracle]_vars

-----------------------------------------------------------------------------
\* fetchTokenPrices and the prices' way into main

\* main asks for the symbols of its common tokens; one common token here.
PipelineLists == {SubSeq(SymbolNames, 1, n) : n \in 0..1}

InitPipeline ==
    /\ IdleMain
    /\ IdleCombined
    /\ IdleMath
    /\ IdleDiscovery
    /\ IdleScale
    /\ IdleUtil
    /\ symbols \in PipelineLists
    /\ apiKey \in BOOLEAN
    /\ tpc = "call"
    /\ chain = "ethereum"
    /\ fpc = "idle"
    /\ iBatch = 0
    /\ chainPrices = <<>>
    /\ ethPrices = <<>>
    /\ results = <<>>
    /\ netLog = <<>>
    /\ failed = {}
    /\ supplied = {}

commonTokensListOf_OneChain(syms, eth, base) ==
    [k \in DOMAIN syms |->
        [index |-> k - 1, symbol |-> syms[k], ethPrice |-> eth[syms[k]],
         basePrice |-> eth[syms[k]], feesEthToBase |-> NullRes, feesBaseToEth |-> NullRes]]
\* bigNumberUtils.js:173-180: symbols.map((symbol, index) => ({...}))
commonTokensListOf(syms, eth, base) ==
    [k \in DOMAIN syms |->
        [index |-> k - 1, symbol |-> syms[k], ethPrice |-> eth[syms[k]],
         basePrice |-> base[syms[k]], feesEthToBase |-> NullRes, feesBaseToEth |-> NullRes]]

\* bigNumberUtils.js:152-160: the key is checked, then fetchChainPrices runs for
\* 'ethereum' up to its first await
fetchTokenPrices ==
    /\ tpc = "call"
    /\ IF apiKey
       THEN tpc' = "eth" /\ StartChain("ethereum")
       ELSE tpc' = "threw" /\ UNCHANGED <<chain, fpc, iBatch, chainPrices, netLog>>
    /\ UNCHANGED <<symbols, apiKey, ethPrices, results, failed, supplied, feeVars, discoveryVars, scaleVars, utilVars>>

\* bigNumberUtils.js:160-161: the 'ethereum' call has returned, the 'base' call starts
ethPricesReturned ==
    /\ tpc = "eth"
    /\ fpc = "returned"
    /\ ethPrices' = chainPrices
    /\ tpc' = "base"
    /\ StartChain("base")
    /\ UNCHANGED <<symbols, apiKey, results, failed, supplied, feeVars, discoveryVars, scaleVars, utilVars>>

\* bigNumberUtils.js:161-182: the 'base' call has returned, results is built
basePricesReturned ==
    /\ tpc = "base"
    /\ fpc = "returned"
    /\ results' = [s \in SeqRange(symbols) |->
                      [ethereum |-> ethPrices[s], base |-> chainPrices[s]]]
    /\ commonTokensList' = commonTokensListOf(symbols, ethPrices, chainPrices)
    /\ tpc' = "returned"
    /\ UNCHANGED <<symbols, apiKey, chain, fpc, iBatch, chainPrices, ethPrices, netLog,
                   failed, supplied, feeVars, discoveryVars, scaleVars, poolIn, poolPrice, ftp>>

\* part_002:150-158: main returns when tokenPrices has no key; otherwise the map
\* callback of the common token reads its two prices.
mainReadsPrices ==
    /\ tpc = "returned"
    /\ IF DOMAIN results = {}
       THEN tpc' = "mainReturned" /\ UNCHANGED <<tok, pc>>
       ELSE /\ tpc' = "mapped"
            /\ \E de, db \in 0..MaxDecimals :
                tok' = [tok EXCEPT ![1] =
                    [present |-> TRUE, symbol |-> symbols[1],
                     ethPrice |-> results[symbols[1]].ethereum,
                     basePrice |-> results[symbols[1]].base,
                     ethDecimals |-> de, baseDecimals |-> db]]
            /\ pc' = [pc EXCEPT ![1] = "start"]
    /\ UNCHANGED <<dir, fees, hopRes, originalConsoleError, supportedIn, supportedOut, log, consoleError,
                   combinedVars, mathVars>>
    /\ UNCHANGED <<symbols, apiKey, chain, fpc, iBatch, chainPrices, ethPrices, results,
                   netLog, failed, supplied, discoveryVars, scaleVars, utilVars>>

\* With at most batchSize symbols the delay of bigNumberUtils.js:137-139 is never
\* taken.
NextPipeline ==
    \/ fetchTokenPrices
    \/ axiosGetSettles
    \/ ethPricesReturned
    \/ basePricesReturned
    \/ mainReadsPrices
    \/ Next

SpecPipeline == InitPipeline /\ [][NextPipeline]_vars

-----------------------------------------------------------------------------
\* Token discovery (tokenDiscovery.js, part_001)

\* The tokens a chain's subgraph knows, by symbol and name (id and decimals are
\* carried along by the code and left out here).
ChainTokens(c) ==
    IF c = "ethereum"
    THEN {[symbol |-> "USDC", name |-> "USD Coin"],
          [symbol |-> "usdc", name |-> "usdc"],
          [symbol |-> "DAI", name |-> "Dai Stablecoin"]}
    ELSE {[symbol |-> "USDC", name |-> "USD Base Coin"],
          [symbol |-> "usdc", name |-> "Bridged usdc"],
          [symbol |-> "WETH", name |-> "Wrapped Ether"]}

\* String.prototype.toLowerCase on the symbols of ChainTokens
toLowerCase(s) ==
    CASE s = "USDC" -> "usdc" [] s = "DAI" -> "dai" [] s = "WETH" -> "weth" [] OTHER -> s

\* pool.volumeUSD as the subgraph sends it: a decimal string, or nothing
VolumeStrings == {"", "1"}

\* pool.liquidity of a pool record that has no liquidity field
MissingLiquidity == -1

\* part_001:35  pool.volumeUSD ? Number(pool.volumeUSD) : 0
volumeOf(pool) == IF pool.volumeUSD = "" THEN 0 ELSE 1

\* part_001:4-13: the pools of a response, their ids being their positions
WithIds(q) ==
    [k \in DOMAIN q |-> [id |-> k, liquidity |-> q[k].liquidity, volumeUSD |-> q[k].volumeUSD,
                         token0 |-> q[k].token0, token1 |-> q[k].token1]]
PoolLists(bodies, n) == {WithIds(q) : q \in UNION {[1..m -> bodies] : m \in 0..n}}

\* The pools aggregateTokens is applied to in SpecAggregate
AggregateBodies ==
    [liquidity : 1..MaxLiquidity, volumeUSD : VolumeStrings,
     token0 : ChainTokens("ethereum"), token1 : ChainTokens("ethereum")]

\* The pools of a chain in SpecDiscovery: every pool of the first chain has
\* liquidity 1000, every pool of the second chain 2000.
ChainLiquidity(c) == IF c = "ethereum" THEN 1000 ELSE 2000
DiscoveryBodies(c) ==
    {b \in [liquidity : {ChainLiquidity(c)}, volumeUSD : {""},
            token0 : ChainTokens(c), token1 : ChainTokens(c)] : b.token0 # b.token1}

\* part_001:37  the position of tokensMap[symbol], 0 when !tokensMap[symbol]
IndexOf(map, symbol) ==
    IF \E k \in DOMAIN map : map[k].symbol = symbol
    THEN CHOOSE k \in DOMAIN map : map[k].symbol = symbol
    ELSE 0

\* part_001:38-44
NewEntry(token, pool) ==
    [symbol |-> token.symbol, token |-> token, liquidity |-> pool.liquidity,
     volumeUSD |-> volumeOf(pool), pools |-> <<pool.id>>, repPool |-> pool]

ReplacesRepPool_OnTies(liquidity, repPool) == liquidity >= repPool.liquidity
\* part_001:49
ReplacesRepPool(liquidity, repPool) == liquidity > repPool.liquidity

MergeLeg_Overwrites(e, pool) ==
    [e EXCEPT !.liquidity = pool.liquidity,
              !.volumeUSD = @ + volumeOf(pool),
              !.pools = Append(@, pool.id),
              !.repPool = IF ReplacesRepPool(pool.liquidity, @) THEN pool ELSE @]
\* part_001:46-51
MergeLeg(e, pool) ==
    [e EXCEPT !.liquidity = @ + pool.liquidity,
              !.volumeUSD = @ + volumeOf(pool),
              !.pools = Append(@, pool.id),
              !.repPool = IF ReplacesRepPool(pool.liquidity, @) THEN pool ELSE @]

\* part_001:32-52: one token of one pool
AddLeg(map, pool, token) ==
    LET k == IndexOf(map, token.symbol)
    IN  IF k = 0 THEN Append(map, NewEntry(token, pool))
        ELSE [map EXCEPT ![k] = MergeLeg(@, pool)]

AddPool_OncePerSymbol(map, pool) ==
    IF pool.token0.symbol = pool.token1.symbol THEN AddLeg(map, pool, pool.token0)
    ELSE AddLeg(AddLeg(map, pool, pool.token0), pool, pool.token1)
\* part_001:31  [pool.token0, pool.token1].forEach
AddPool(map, pool) == AddLeg(AddLeg(map, pool, pool.token0), pool, pool.token1)

RECURSIVE AggregateFrom(_, _, _)
AggregateFrom(map, pools, k) ==
    IF k > Len(pools) THEN map ELSE AggregateFrom(AddPool(map, pools[k]), pools, k + 1)

\* part_001:28-57: tokensMap as the sequence of its values in insertion order
aggregateTokens(pools) == AggregateFrom(<<>>, pools, 1)

Compare_Ascending(a, b) == IF a.liquidity > b.liquidity THEN 1 ELSE -1
\* part_001:70  the comparator given to sort: it never returns 0
Compare(a, b) == IF b.liquidity > a.liquidity THEN 1 ELSE -1

Orderings(n) == {f \in [1..n -> 1..n] : \A i, j \in 1..n : f[i] = f[j] => i = j}

\* part_001:69-70  Object.values(tokens).sort(Compare).  The comparator is not a
\* consistent one (for equal liquidities it puts a before b whichever is a), so the
\* order of the result is implementation-defined: the outcomes are the orders in
\* which every pair stands as some call of the comparator on it says.
SortOutcomes(list) ==
    {[k \in 1..Len(list) |-> list[f[k]]] :
        f \in {g \in Orderings(Len(list)) :
                \A i, j \in 1..Len(list) :
                    i < j => \/ Compare(list[g[i]], list[g[j]]) < 0
                             \/ Compare(list[g[j]], list[g[i]]) > 0}}

\* part_001:71-79
SortedView(e) ==
    [symbol |-> e.token.symbol, name |-> e.token.name, liquidity |-> e.liquidity,
     volumeUSD |-> e.volumeUSD, repPool |-> e.repPool.id]

\* part_001:67-80
getSortedTokens(tokens) ==
    {[k \in DOMAIN q |-> SortedView(q[k])] : q \in SortOutcomes(tokens)}

LowerSymbols(list) == [k \in DOMAIN list |-> toLowerCase(list[k].symbol)]

RECURSIVE Distinct(_, _)
\* part_001:88  new Set(...): the first k elements without repetitions, in order
Distinct(q, k) ==
    IF k = 0 THEN <<>>
    ELSE LET d == Distinct(q, k - 1)
         IN  IF q[k] \in SeqRange(d) THEN d ELSE Append(d, q[k])

\* part_001:88-91
commonSymbols(eth, base) ==
    LET baseSymbols == SeqRange(LowerSymbols(base))
    IN  SelectSeq(Distinct(LowerSymbols(eth), Len(eth)), LAMBDA sym : sym \in baseSymbols)

Find_LastMatch(list, sym) ==
    list[CHOOSE k \in DOMAIN list :
            /\ toLowerCase(list[k].symbol) = sym
            /\ \A j \in DOMAIN list : j > k => toLowerCase(list[j].symbol) # sym]
\* part_001:94-95  list.find(t => t.symbol.toLowerCase() === sym)
Find(list, sym) ==
    list[CHOOSE k \in DOMAIN list :
            /\ toLowerCase(list[k].symbol) = sym
            /\ \A j \in DOMAIN list : j < k => toLowerCase(list[j].symbol) # sym]

\* part_001:93-102
CommonTokensOf(eth, base) ==
    LET cs == commonSymbols(eth, base)
    IN  [k \in DOMAIN cs |->
            [symbol |-> Find(eth, cs[k]).symbol, name |-> Find(eth, cs[k]).name,
             ethereum |-> Find(eth, cs[k]), base |-> Find(base, cs[k])]]

\* aggregateTokens and the ranking of getSortedTokens as functions of a pool list
InitAggregate ==
    /\ IdleMain
    /\ IdleCombined
    /\ IdleMath
    /\ IdleOracle
    /\ IdleScale
    /\ IdleUtil
    /\ aggPools \in PoolLists(AggregateBodies, MaxPools)
    /\ aggPc = "in"
    /\ aggTokensMap = <<>>
    /\ aggSorted = <<>>
    /\ subgraph = [c \in Chains |-> <<>>]
    /\ apc = "idle"
    /\ dpc = [c \in Chains |-> "idle"]
    /\ sortedTokens = [c \in Chains |-> <<>>]
    /\ commonTokens = <<>>

\* part_001:34  BigInt(pool.liquidity) throws a TypeError when pool.liquidity is
\* undefined or null; the exception leaves forEach and aggregateTokens.
BigIntThrows(pools) == \E k \in DOMAIN pools : pools[k].liquidity = MissingLiquidity

ApplyAggregate ==
    /\ aggPc = "in"
    /\ IF BigIntThrows(aggPools)
       THEN aggPc' = "threw" /\ aggTokensMap' = aggTokensMap
       ELSE aggPc' = "aggregated" /\ aggTokensMap' = aggregateTokens(aggPools)
    /\ UNCHANGED <<aggPools, aggSorted, subgraph, apc, dpc, sortedTokens, commonTokens,
                   feeVars, oracleVars, scaleVars, utilVars>>

ApplySort ==
    /\ aggPc = "aggregated"
    /\ aggSorted' \in getSortedTokens(aggTokensMap)
    /\ aggPc' = "sorted"
    /\ UNCHANGED <<aggPools, aggTokensMap, subgraph, apc, dpc, sortedTokens, commonTokens,
                   feeVars, oracleVars, scaleVars, utilVars>>

NextAggregate == ApplyAggregate \/ ApplySort

SpecAggregate == InitAggregate /\ [][NextAggregate]_vars

\* The pools aggregateTokens is applied to in SpecPartial: liquidity or
\* volumeUSD may be missing from a pool record
PartialBodies ==
    [liquidity : {MissingLiquidity, 1}, volumeUSD : VolumeStrings,
     token0 : ChainTokens("ethereum"), token1 : ChainTokens("ethereum")]

InitPartial ==
    /\ IdleMain
    /\ IdleCombined
    /\ IdleMath
    /\ IdleOracle
    /\ IdleScale
    /\ IdleUtil
    /\ aggPools \in PoolLists(PartialBodies, MaxPools)
    /\ aggPc = "in"
    /\ aggTokensMap = <<>>
    /\ aggSorted = <<>>
    /\ subgraph = [c \in Chains |-> <<>>]
    /\ apc = "idle"
    /\ dpc = [c \in Chains |-> "idle"]
    /\ sortedTokens = [c \in Chains |-> <<>>]
    /\ commonTokens = <<>>

SpecPartial == InitPartial /\ [][NextAggregate]_vars

\* discoverAllTokensSorted over the two subgraphs
InitDiscovery ==
    /\ IdleMain
    /\ IdleCombined
    /\ IdleMath
    /\ IdleOracle
    /\ IdleScale
    /\ IdleUtil
    /\ aggPools = <<>>
    /\ aggPc = "idle"
    /\ aggTokensMap = <<>>
    /\ aggSorted = <<>>
    /\ \E e \in PoolLists(DiscoveryBodies("ethereum"), MaxChainPools),
          b \in PoolLists(DiscoveryBodies("base"), MaxChainPools) :
            subgraph = [c \in Chains |-> IF c = "ethereum" THEN e ELSE b]
    /\ apc = "call"
    /\ dpc = [c \in Chains |-> "idle"]
    /\ sortedTokens = [c \in Chains |-> <<>>]
    /\ commonTokens = <<>>

\* part_001:82-86, 67-68, 59-63, 16-21: both getSortedTokens calls run up to the
\* await of their axios.post
discoverAllTokensSorted ==
    /\ apc = "call"
    /\ apc' = "waiting"
    /\ dpc' = [c \in Chains |-> "fetching"]
    /\ UNCHANGED <<aggPools, aggPc, aggTokensMap, aggSorted, subgraph, sortedTokens,
                   commonTokens, feeVars, oracleVars, scaleVars, utilVars>>

\* part_001:17-25, 64, 69-79: the request of chain c settles: with the pools, which
\* are aggregated and ranked, or with a failure (a rejection, or errors in the body)
fetchPoolsSettles(c) ==
    /\ dpc[c] = "fetching"
    /\ \/ /\ sortedTokens' \in
               {[sortedTokens EXCEPT ![c] = q] : q \in getSortedTokens(aggregateTokens(subgraph[c]))}
          /\ dpc' = [dpc EXCEPT ![c] = "resolved"]
       \/ /\ dpc' = [dpc EXCEPT ![c] = "rejected"]
          /\ UNCHANGED sortedTokens
    /\ UNCHANGED <<aggPools, aggPc, aggTokensMap, aggSorted, subgraph, apc, commonTokens,
                   feeVars, oracleVars, scaleVars, utilVars>>

\* part_001:83-104: Promise.all has resolved
tokensJoined ==
    /\ apc = "waiting"
    /\ \A c \in Chains : dpc[c] = "resolved"
    /\ commonTokens' = CommonTokensOf(sortedTokens["ethereum"], sortedTokens["base"])
    /\ apc' = "returned"
    /\ UNCHANGED <<aggPools, aggPc, aggTokensMap, aggSorted, subgraph, dpc, sortedTokens,
                   feeVars, oracleVars, scaleVars, utilVars>>

\* part_001:83-86: Promise.all rejects with the first rejection
discoveryRejects ==
    /\ apc = "waiting"
    /\ \E c \in Chains : dpc[c] = "rejected"
    /\ apc' = "rejected"
    /\ UNCHANGED <<aggPools, aggPc, aggTokensMap, aggSorted, subgraph, dpc, sortedTokens,
                   commonTokens, feeVars, oracleVars, scaleVars, utilVars>>

NextDiscovery ==
    \/ discoverAllTokensSorted
    \/ \E c \in Chains : fetchPoolsSettles(c)
    \/ tokensJoined
    \/ discoveryRejects

SpecDiscovery == InitDiscovery /\ [][NextDiscovery]_vars

-----------------------------------------------------------------------------
\* main with two common tokens: Promise.all runs their callbacks concurrently

\* part_002:156: the callbacks of all common tokens are started by commonTokens.map
\* before any of them resumes.  The first token has the price 1 on both chains,
\* the second has it on Ethereum and no price on Base.
ConcurrentTokens ==
    [s \in Slots |->
        [present |-> TRUE, symbol |-> IF s = 1 THEN "USDC" ELSE "DAI",
         ethPrice |-> NumPrice(1),
         basePrice |-> IF s = 1 THEN NumPrice(1) ELSE AbsentMarker,
         ethDecimals |-> 0, baseDecimals |-> 0]]

InitConcurrent ==
    /\ tok = ConcurrentTokens
    /\ pc = [s \in Slots |-> "start"]
    /\ dir = [s \in Slots |-> "EB"]
    /\ fees = [s \in Slots |-> [d \in Dirs |-> Pending]]
    /\ hopRes = [s \in Slots |-> [d \in Dirs |-> Pending]]
    /\ originalConsoleError = [s \in Slots |-> "original"]
    /\ supportedIn = [s \in Slots |-> FALSE]
    /\ supportedOut = [s \in Slots |-> FALSE]
    /\ log = [s \in Slots |-> [d \in Dirs |-> <<>>]]
    /\ consoleError = "original"
    /\ IdleCombined
    /\ IdleMath
    /\ IdleStages

SpecConcurrent == InitConcurrent /\ [][Next]_vars

-----------------------------------------------------------------------------
\* scaleValue and descaleValue (bigNumberUtils.js)

\* bigNumberUtils.js:44-48: value times 10^decimals, rounded down to an integer
\* (ROUND_FLOOR) and handed to BigNumber.from, which accepts any integer string.
\* No test of the sign, no failure: every value gives a BigNumber.
scaleValue(value, decimals) ==
    BigNumberOf(IF decimals >= value.scale
                THEN value.mant * Pow10(decimals - value.scale)
                ELSE value.mant \div Pow10(value.scale - decimals))

\* bigNumberUtils.js:50-53 with the configuration of line 5: bignumber.js rounds the
\* quotient to DECIMAL_PLACES decimal places, half up (its default ROUNDING_MODE);
\* toFixed() prints all of them.  bnValue >= 0.
descaleValue(bnValue, decimals) ==
    LET places == Min(decimals, DECIMAL_PLACES)
    IN  Decimal(RoundHalfUp(bnValue, Pow10(decimals - places)), places)

ScaleDecimals == (0..MaxDecimals) \cup (DECIMAL_PLACES..(DECIMAL_PLACES + MaxExtraDecimals))

ScaleInputs ==
    [x : 0..MaxAmount, decimals : ScaleDecimals,
     human : {Decimal(m, s) : m \in (0 - MaxAmount)..MaxAmount, s \in 0..MaxDecimals},
     humanDecimals : 0..MaxDecimals]

InitScale ==
    /\ IdleMain
    /\ IdleCombined
    /\ IdleMath
    /\ IdleOracle
    /\ IdleDiscovery
    /\ IdleUtil
    /\ scaleIn \in ScaleInputs
    /\ descaled = NoDecimal
    /\ roundTrip = NoBigNumber
    /\ scaled = NoBigNumber

ApplyDescale ==
    /\ descaled = NoDecimal
    /\ descaled' = descaleValue(scaleIn.x, scaleIn.decimals)
    /\ UNCHANGED <<scaleIn, roundTrip, scaled, feeVars, oracleVars, discoveryVars, utilVars>>

ApplyScaleBack ==
    /\ descaled # NoDecimal
    /\ roundTrip = NoBigNumber
    /\ roundTrip' = scaleValue(descaled, scaleIn.decimals)
    /\ UNCHANGED <<scaleIn, descaled, scaled, feeVars, oracleVars, discoveryVars, utilVars>>

ApplyScale ==
    /\ scaled = NoBigNumber
    /\ scaled' = scaleValue(scaleIn.human, scaleIn.humanDecimals)
    /\ UNCHANGED <<scaleIn, descaled, roundTrip, feeVars, oracleVars, discoveryVars, utilVars>>

NextScale == ApplyDescale \/ ApplyScaleBack \/ ApplyScale

SpecScale == InitScale /\ [][NextScale]_vars

-----------------------------------------------------------------------------
\* computePoolPrice (bigNumberUtils.js)

RECURSIVE Pow2(_)
Pow2(n) == IF n <= 0 THEN 1 ELSE 2 * Pow2(n - 1)
RECURSIVE Pow5(_)
Pow5(n) == IF n <= 0 THEN 1 ELSE 5 * Pow5(n - 1)

\* BigNumber.prototype.times: exact
times(a, b) == Num(a.mant * b.mant, a.exp2 + b.exp2, a.exp10 + b.exp10)

RECURSIVE StripZeros(_, _)
\* a decimal value m * 10^e10 written with a mantissa that does not end in 0
StripZeros(m, e10) ==
    IF m = 0 THEN [mant |-> 0, exp10 |-> 0]
    ELSE IF m % 10 = 0 THEN StripZeros(m \div 10, e10 + 1)
    ELSE [mant |-> m, exp10 |-> e10]

\* bigNumberUtils.js:5: a quotient is rounded to DECIMAL_PLACES decimal places, half up
RoundToPlaces(v) ==
    IF v.exp10 >= 0 - DECIMAL_PLACES THEN v
    ELSE StripZeros(RoundHalfUp(v.mant, Pow10(0 - DECIMAL_PLACES - v.exp10)), 0 - DECIMAL_PLACES)

\* BigNumber.prototype.dividedBy for a divisor 2^i * 10^j, and toFixed() of the
\* quotient: 2^(-n) is 5^n * 10^(-n).
dividedBy(a, b) ==
    LET e2 == a.exp2 - b.exp2
        e10 == a.exp10 - b.exp10
    IN  RoundToPlaces(IF e2 >= 0 THEN StripZeros(a.mant * Pow2(e2), e10)
                      ELSE StripZeros(a.mant * Pow5(0 - e2), e10 + e2))

\* bigNumberUtils.js:22
Q192 == Num(1, 192, 0)

computePoolPrice_DecimalsSwapped(sqrtPriceX96, token0Decimals, token1Decimals) ==
    LET numerator == times(times(sqrtPriceX96, sqrtPriceX96), Num(1, 0, token1Decimals))
        denominator == times(Q192, Num(1, 0, token0Decimals))
    IN  dividedBy(numerator, denominator)
\* bigNumberUtils.js:20-28: the value of the decimal string returned
computePoolPrice(sqrtPriceX96, token0Decimals, token1Decimals) ==
    LET numerator == times(times(sqrtPriceX96, sqrtPriceX96), Num(1, 0, token0Decimals))
        denominator == times(Q192, Num(1, 0, token1Decimals))
    IN  dividedBy(numerator, denominator)

\* testEndpoints.js:53-54: '79228162514264337593543950336' is 2^96; decimals 6 and 18
TestSqrtPriceX96 == Num(1, 96, 0)
TestDecimals0 == 6
TestDecimals1 == 18

PoolDecimals == (0..MaxDecimals) \cup {TestDecimals0, TestDecimals1}
PoolInputs ==
    [sqrtPriceX96 : {Num(m, TestSqrtPriceX96.exp2 - k, 0) :
                        m \in 0..MaxSqrtMantissa, k \in 0..MaxSqrtShift},
     token0Decimals : PoolDecimals, token1Decimals : PoolDecimals]

InitPoolPrice ==
    /\ IdleMain
    /\ IdleCombined
    /\ IdleMath
    /\ IdleOracle
    /\ IdleDiscovery
    /\ IdleScale
    /\ poolIn \in PoolInputs
    /\ poolPrice = NoPoolPrice
    /\ ftp = [c \in Calls |-> NoCall]
    /\ commonTokensList = <<>>

ApplyComputePoolPrice ==
    /\ poolPrice = NoPoolPrice
    /\ poolPrice' = computePoolPrice(poolIn.sqrtPriceX96, poolIn.token0Decimals,
                                     poolIn.token1Decimals)
    /\ UNCHANGED <<poolIn, ftp, commonTokensList, feeVars, oracleVars, discoveryVars,
                   scaleVars>>

NextPoolPrice == ApplyComputePoolPrice

SpecPoolPrice == InitPoolPrice /\ [][NextPoolPrice]_vars

-----------------------------------------------------------------------------
\* Overlapping calls of fetchTokenPrices and the module-level commonTokensList

\* The symbol lists of the calls: the lists without repetition over Symbols
ListRequests ==
    UNION {{q \in [1..n -> Symbols] : \A i, j \in 1..n : q[i] = q[j] => i = j} :
            n \in 0..Cardinality(Symbols)}

\* bigNumberUtils.js:91-96, 126, 142: what fetchChainPrices returns for the
\* requested symbols: for each the marker or a price
ReturnedPrices(syms) == [SeqRange(syms) -> {AbsentMarker, parseFloat("1")}]

InitList ==
    /\ IdleMain
    /\ IdleCombined
    /\ IdleMath
    /\ IdleOracle
    /\ IdleDiscovery
    /\ IdleScale
    /\ poolIn = [sqrtPriceX96 |-> Num(0, 0, 0), token0Decimals |-> 0, token1Decimals |-> 0]
    /\ poolPrice = NoPoolPrice
    /\ ftp \in [Calls -> [symbols : ListRequests, apiKey : BOOLEAN, pc : {"call"},
                          ethPrices : {<<>>}, basePrices : {<<>>}]]
    /\ commonTokensList = <<>>

\* bigNumberUtils.js:152-160: call c checks the key and awaits the 'ethereum' pass
fetchTokenPricesCalled(c) ==
    /\ ftp[c].pc = "call"
    /\ ftp' = [ftp EXCEPT ![c].pc = IF ftp[c].apiKey THEN "eth" ELSE "threw"]
    /\ UNCHANGED <<poolIn, poolPrice, commonTokensList, feeVars, oracleVars, discoveryVars,
                   scaleVars>>

\* bigNumberUtils.js:160-161: the 'ethereum' pass of call c returns, the 'base'
\* pass is awaited
ethPassReturns(c) ==
    /\ ftp[c].pc = "eth"
    /\ \E prices \in ReturnedPrices(ftp[c].symbols) :
          ftp' = [ftp EXCEPT ![c].ethPrices = prices, ![c].pc = "base"]
    /\ UNCHANGED <<poolIn, poolPrice, commonTokensList, feeVars, oracleVars, discoveryVars,
                   scaleVars>>

\* bigNumberUtils.js:161-182: the 'base' pass of call c returns; results is built,
\* commonTokensList is assigned and the call returns
basePassReturns(c) ==
    /\ ftp[c].pc = "base"
    /\ \E prices \in ReturnedPrices(ftp[c].symbols) :
          /\ ftp' = [ftp EXCEPT ![c].basePrices = prices, ![c].pc = "returned"]
          /\ commonTokensList' = commonTokensListOf(ftp[c].symbols, ftp[c].ethPrices, prices)
    /\ UNCHANGED <<poolIn, poolPrice, feeVars, oracleVars, discoveryVars, scaleVars>>

\* bigNumberUtils.js:230-232
getCommonTokens == commonTokensList

NextList ==
    \E c \in Calls :
        \/ fetchTokenPricesCalled(c)
        \/ ethPassReturns(c)
        \/ basePassReturns(c)

SpecList == InitList /\ [][NextList]_vars

-----------------------------------------------------------------------------
\* Vocabulary of the claims

Count(seq, e) == Cardinality({i \in DOMAIN seq : seq[i] = e})
HopCalls == {"bridge", "getSendData"}
OpenOceanCalls == {"tokenList", "quote"}
ProviderCallCount(seq) == Cardinality({i \in DOMAIN seq : seq[i] \in HopCalls \cup OpenOceanCalls})
Requests == {r \in Slots \X Dirs : tok[r[1]].present}
Returned(s) == pc[s] \in {"done", "skipped"}
Usable(r) == r.status = "fee"
HopFailed(r) == r.status \in {"Not supported", "Route not supported", "Error calculating fees"}

\* C1: for a token whose symbol is not in the primary provider's whitelist the
\* primary provider (bridge lookup, getSendData) is never called.
C1_PrimaryNeverCalledOffWhitelist ==
    \A r \in Requests :
        tok[r[1]].symbol \notin supportedHopTokens
            => \A e \in HopCalls : Count(log[r[1]][r[2]], e) = 0

\* C2: when the token is in the whitelist and the primary call failed with
\* "Route not supported", the fallback adapter is called exactly once before the
\* request returns: never more than once, and once when the callback has returned.
C2_FallbackExactlyOnce ==
    \A r \in Requests :
        (tok[r[1]].symbol \in supportedHopTokens /\ hopRes[r[1]][r[2]] = RouteNotSupported)
            => /\ Count(log[r[1]][r[2]], "oo") <= 1
               /\ Count(log[r[1]][r[2]], "quote") <= 1
               /\ pc[r[1]] = "done" => Count(log[r[1]][r[2]], "oo") = 1

C2_Witness ==
    \E r \in Requests :
        /\ tok[r[1]].symbol \in supportedHopTokens
        /\ hopRes[r[1]][r[2]] = RouteNotSupported
        /\ pc[r[1]] = "done"
        /\ Count(log[r[1]][r[2]], "oo") = 1
        /\ Count(log[r[1]][r[2]], "quote") = 1

\* C3: a request with an invalid or missing price ends with the no-price result
\* (null), without any provider call and without a fallback attempt.
C3_NoPriceShortCircuits ==
    /\ \A r \in Requests :
           (InvalidPrice(priceOf(tok[r[1]], r[2])) /\ Returned(r[1]))
               => /\ fees[r[1]][r[2]] \in {NullRes, Pending}
                  /\ ProviderCallCount(log[r[1]][r[2]]) = 0
                  /\ Count(log[r[1]][r[2]], "oo") = 0
    /\ (cres # "idle" /\ InvalidPrice(creq.tokenPriceUSD)) => cres = "NoPrice"

\* C4: after every kind of failure of the primary provider the fallback provider
\* is tried before the request returns.
C4_EveryPrimaryFailureFallsBack ==
    \A r \in Requests :
        (pc[r[1]] = "done" /\ HopFailed(hopRes[r[1]][r[2]]))
            => Count(log[r[1]][r[2]], "oo") >= 1

\* C5: within one request the primary adapter runs before the fallback adapter,
\* the fallback adapter never runs after a usable primary result, and neither
\* adapter, nor getSendData, nor the quote is called more than once.
C5_PrimaryThenFallbackOnce ==
    \A r \in Requests :
        LET l == log[r[1]][r[2]]
        IN  /\ \A e \in {"hop", "bridge", "getSendData", "oo", "quote"} : Count(l, e) <= 1
            /\ Usable(hopRes[r[1]][r[2]]) => Count(l, "oo") = 0
            /\ \A i, j \in DOMAIN l :
                   (l[i] \in {"oo"} \cup OpenOceanCalls /\ l[j] \in {"hop"} \cup HopCalls) => j < i
            /\ Count(l, "oo") = 1 => hopRes[r[1]][r[2]] # Pending

C5_Witness ==
    \E s \in Slots :
        /\ pc[s] = "done"
        /\ Usable(hopRes[s]["EB"])
        /\ Count(log[s]["EB"], "oo") = 0
        /\ hopRes[s]["BE"] = NotSupported
        /\ log[s]["BE"] = <<"hop", "bridge", "oo", "tokenList", "tokenList", "quote">>
        /\ Usable(fees[s]["BE"])

\* C6: every fee computation ends with a fee summary or one of the named results;
\* no exception escapes the fee engine.
C6_NoFaultEscapes ==
    /\ cres \in {"idle", "returned"}
    /\ \A r \in Requests :
           pc[r[1]] = "done" =>
               fees[r[1]][r[2]].status \in
                   {"fee", "null", "Not supported", "Route not supported",
                    "Error calculating fees"}

\* C7: a request with a price ends either Done, with a usable result, or
\* Exhausted, with "Route not supported" after the fallback provider was tried;
\* there is no other terminal state.
C7_TerminalStatesDoneOrExhausted ==
    /\ cres \in {"idle", "returned"}
    /\ \A r \in Requests :
           (pc[r[1]] = "done" /\ ~InvalidPrice(priceOf(tok[r[1]], r[2])))
               => \/ Usable(fees[r[1]][r[2]])
                  \/ /\ fees[r[1]][r[2]] = RouteNotSupported
                     /\ Count(log[r[1]][r[2]], "oo") = 1

\* C8: the fee the swap-aggregator path reports is never negative, and is the
\* zero-fee result whenever the output amount exceeds the input amount.
C8_FallbackFeeNeverNegative ==
    mathOO # Pending =>
        /\ Usable(mathOO) => (mathOO.bps >= 0 /\ mathOO.usd4 >= 0)
        /\ mathIn.principal - mathIn.fee > mathIn.principal => mathOO = FeeRes(0, 0)

C8_Witness ==
    /\ mathOO = FeeRes(0, 0)
    /\ mathIn.fee < 0
    /\ mathIn.principal > 0

\* C9: calculateFeeBasisPoints(fee, total) is within 0..10000 whenever
\* 0 <= fee <= total, and is 0 when total = 0.
C9_BasisPointsInRange ==
    mathHop # Pending =>
        /\ (0 <= mathIn.fee /\ mathIn.fee <= mathIn.principal)
               => (mathHop.bps >= 0 /\ mathHop.bps <= 10000)
        /\ mathIn.principal = 0 => mathHop.bps = 0

C9_Witness ==
    /\ mathHop # Pending
    /\ mathIn.fee = mathIn.principal
    /\ mathIn.principal > 0
    /\ mathHop.bps = 10000

\* C10: for equal fee and principal both provider paths report the same basis
\* points, floor(fee * 10000 / principal) where the principal is positive and the
\* defined 0 where it is zero.
C10_OneFormulaBothPaths ==
    (mathHop # Pending /\ mathOO # Pending /\ 0 <= mathIn.fee /\ mathIn.fee <= mathIn.principal)
        => /\ Usable(mathHop)
           /\ Usable(mathOO)
           /\ mathHop.bps = mathOO.bps
           /\ mathHop.bps = IF mathIn.principal = 0 THEN 0
                            ELSE (mathIn.fee * 10000) \div mathIn.principal

\* C11: the mapping fetchChainPrices works on and returns has exactly the requested
\* symbols as keys, whatever the responses contain: from the first request on every
\* requested symbol is a key, no other key is ever added, and each value is the
\* absence marker or a numeric price.
C11_ExactlyRequestedKeys ==
    fpc \in {"await", "delay", "returned"}
        => /\ DOMAIN chainPrices = SeqRange(symbols)
           /\ \A k \in DOMAIN chainPrices :
                chainPrices[k] = AbsentMarker \/ chainPrices[k].kind = "num"

GetCount(c) == Cardinality({k \in DOMAIN netLog : netLog[k].kind = "get" /\ netLog[k].chain = c})
BatchCount == (Len(symbols) + batchSize - 1) \div batchSize

\* C12: a batch whose request fails does not abort fetchChainPrices: when the
\* function has returned, every batch was requested, the symbols of every failed
\* batch hold the absence marker, and every price received from another batch,
\* before or after the failed one, is in the result.
C12_BatchFailureIsolated ==
    fpc = "returned"
        => /\ GetCount(chain) = BatchCount
           /\ \A b \in failed :
                \A s \in SeqRange(batchSymbols(b[2])) : chainPrices[s] = AbsentMarker
           /\ \A t \in supplied :
                t[1] = chain => chainPrices[t[2]] = parseFloat(t[3])

C12_Witness ==
    /\ fpc = "returned"
    /\ Len(symbols) = 2 * batchSize + 1
    /\ failed = {<<chain, batchSize>>}
    /\ chainPrices[symbols[1]] = NumPrice(1)
    /\ chainPrices[symbols[batchSize + 1]] = AbsentMarker
    /\ chainPrices[symbols[2 * batchSize + 1]] = NumPrice(1)

Unsupplied(c, s) == \A v \in ValueStrings : <<c, s, v>> \notin supplied
UnsuppliedDirs(s) ==
    {d \in Dirs : Unsupplied(IF d = "EB" THEN "ethereum" ELSE "base", s)}

\* C13: a symbol for which the oracle's responses of a chain held no usable USD
\* entry has the absence marker, never the number 0, in chainPrices, in what
\* fetchTokenPrices returns and in the price main reads; the fee request of that
\* direction calls no provider and its result is null (no price), never a quote.
C13_AbsenceNeverZero ==
    \A s \in SeqRange(symbols) :
        /\ (fpc \in {"await", "delay", "returned"} /\ Unsupplied(chain, s))
              => chainPrices[s] = AbsentMarker
        /\ (tpc = "base" /\ Unsupplied("ethereum", s)) => ethPrices[s] = AbsentMarker
        /\ (tpc \in {"returned", "mapped"} /\ Unsupplied("ethereum", s))
              => results[s].ethereum = AbsentMarker
        /\ (tpc \in {"returned", "mapped"} /\ Unsupplied("base", s))
              => results[s].base = AbsentMarker
        /\ \A d \in UnsuppliedDirs(s) :
              tpc = "mapped"
                  => /\ priceOf(tok[1], d) = AbsentMarker
                     /\ ProviderCallCount(log[1][d]) = 0
                     /\ fees[1][d] \in {Pending, NullRes}
                     /\ pc[1] = "done" => fees[1][d] = NullRes

C13_Witness ==
    /\ tpc = "mapped"
    /\ pc[1] = "done"
    /\ UnsuppliedDirs(symbols[1]) = {"EB"}
    /\ fees[1]["EB"] = NullRes
    /\ Usable(fees[1]["BE"])

\* The legs of the pools given to aggregateTokens: pool position and side
Legs == {<<k, side>> \in (DOMAIN aggPools) \X {0, 1} : TRUE}
LegSymbol(l) == IF l[2] = 0 THEN aggPools[l[1]].token0.symbol ELSE aggPools[l[1]].token1.symbol
LegsOf(symbol) == {l \in Legs : LegSymbol(l) = symbol}
RECURSIVE SumLiquidity(_)
SumLiquidity(legs) ==
    IF legs = {} THEN 0
    ELSE LET l == CHOOSE x \in legs : TRUE
         IN  aggPools[l[1]].liquidity + SumLiquidity(legs \ {l})
AggregatedSymbols == {aggTokensMap[k].symbol : k \in DOMAIN aggTokensMap}

\* C14: after aggregateTokens has processed the pools, tokensMap has one entry for
\* each symbol some pool carries, and the entry's liquidity is the exact sum of the
\* liquidity of every pool leg carrying the symbol.
C14_LiquidityIsSumOfLegs ==
    aggPc \in {"aggregated", "sorted"}
        => /\ AggregatedSymbols = {LegSymbol(l) : l \in Legs}
           /\ Len(aggTokensMap) = Cardinality(AggregatedSymbols)
           /\ \A k \in DOMAIN aggTokensMap :
                aggTokensMap[k].liquidity = SumLiquidity(LegsOf(aggTokensMap[k].symbol))

C14_Witness ==
    /\ aggPc = "aggregated"
    /\ Len(aggPools) = MaxPools
    /\ \E k \in DOMAIN aggTokensMap :
        /\ Cardinality(LegsOf(aggTokensMap[k].symbol)) > MaxPools
        /\ aggTokensMap[k].liquidity > MaxLiquidity

PoolsOf(symbol) == {l[1] : l \in LegsOf(symbol)}
MaxLiquidityPools(symbol) ==
    {k \in PoolsOf(symbol) : \A j \in PoolsOf(symbol) : aggPools[j].liquidity <= aggPools[k].liquidity}

\* C15: the representative pool of a symbol is one of the pools containing the
\* symbol, none of them has more liquidity, and among those of that liquidity it is
\* the first of the list.
C15_RepresentativePool ==
    aggPc \in {"aggregated", "sorted"}
        => \A k \in DOMAIN aggTokensMap :
            LET e == aggTokensMap[k]
            IN  /\ e.repPool.id \in MaxLiquidityPools(e.symbol)
                /\ e.repPool = aggPools[e.repPool.id]
                /\ \A j \in MaxLiquidityPools(e.symbol) : e.repPool.id <= j

C15_Witness ==
    /\ aggPc = "aggregated"
    /\ \E k \in DOMAIN aggTokensMap :
        /\ Cardinality(MaxLiquidityPools(aggTokensMap[k].symbol)) > 1
        /\ aggTokensMap[k].repPool.id = 1

\* the position of a symbol in tokensMap (first-encounter order) and in the ranking
EncounterIndex(symbol) == CHOOSE k \in DOMAIN aggTokensMap : aggTokensMap[k].symbol = symbol
RankIndex(symbol) == CHOOSE k \in DOMAIN aggSorted : aggSorted[k].symbol = symbol

\* C16: in the list getSortedTokens returns, tokens of identical total liquidity
\* stand in the order in which their symbols were first encountered.
C16_RankingStable ==
    aggPc = "sorted"
        => \A a, b \in AggregatedSymbols :
            (/\ EncounterIndex(a) < EncounterIndex(b)
             /\ aggTokensMap[EncounterIndex(a)].liquidity = aggTokensMap[EncounterIndex(b)].liquidity)
                => RankIndex(a) < RankIndex(b)

LowerOn(c) == SeqRange(LowerSymbols(sortedTokens[c]))
MatchedLower == [k \in DOMAIN commonTokens |-> toLowerCase(commonTokens[k].symbol)]

\* C17: discoverAllTokensSorted returns one matched token for each lower-cased
\* symbol present on both chains and none for any other; the match carries, for each
\* chain, the first entry of the chain's ranked list whose lower-cased symbol is
\* that one, and its symbol and name are those of the Ethereum entry.  When each
\* chain has a single pool and the only symbol on both chains is USDC, the result
\* is the single match USDC, whose second-chain side has the second chain's pool,
\* of liquidity 2000, as representative.
C17_OneMatchPerCommonSymbol ==
    apc = "returned"
        => /\ SeqRange(MatchedLower) = LowerOn("ethereum") \cap LowerOn("base")
           /\ \A j, k \in DOMAIN commonTokens : MatchedLower[j] = MatchedLower[k] => j = k
           /\ \A k \in DOMAIN commonTokens :
                LET m == commonTokens[k]
                IN  /\ \A c \in Chains :
                        \E p \in DOMAIN sortedTokens[c] :
                            /\ (IF c = "ethereum" THEN m.ethereum ELSE m.base) = sortedTokens[c][p]
                            /\ toLowerCase(sortedTokens[c][p].symbol) = MatchedLower[k]
                            /\ \A q \in 1..(p - 1) :
                                toLowerCase(sortedTokens[c][q].symbol) # MatchedLower[k]
                    /\ m.symbol = m.ethereum.symbol
                    /\ m.name = m.ethereum.name
           /\ (/\ \A c \in Chains : Len(subgraph[c]) = 1
               /\ \A c \in Chains : {t.symbol : t \in SeqRange(sortedTokens[c])} \cap {"USDC", "usdc"} = {"USDC"}
               /\ LowerOn("ethereum") \cap LowerOn("base") = {"usdc"})
                  => /\ Len(commonTokens) = 1
                     /\ commonTokens[1].symbol = "USDC"
                     /\ commonTokens[1].base.repPool = subgraph["base"][1].id
                     /\ subgraph["base"][1].liquidity = 2000
                     /\ commonTokens[1].ethereum.liquidity = 1000
                     /\ commonTokens[1].base.liquidity = 2000

C17_Witness ==
    /\ apc = "returned"
    /\ Len(commonTokens) = 1
    /\ Len(sortedTokens["ethereum"]) = 2
    /\ LowerOn("ethereum") = {"usdc"}
    /\ commonTokens[1].symbol = "usdc"
    /\ commonTokens[1].base.symbol = "USDC"
    /\ commonTokens[1].base.name = "USD Base Coin"
    /\ commonTokens[1].name = "usdc"

AllReturned == \A s \in Slots : tok[s].present => Returned(s)

\* C18: the fee requests that run concurrently share no state: a request never
\* reads process-wide state that another request has written (the console.error a
\* Hop call saves is the original one, as it is when the requests run one after
\* another), and when all requests have finished the process-wide state is what
\* it is after a sequential run (console.error is the original one).
C18_RequestsIndependent ==
    /\ \A s \in Slots : originalConsoleError[s] = "original"
    /\ AllReturned => consoleError = "original"

\* C19: for every non-negative integer x and every decimal count d,
\* scaleValue(descaleValue(x, d), d) is a value and is not more than x.
C19_RoundTripNeverExceeds ==
    roundTrip # NoBigNumber
        => /\ roundTrip.status = "value"
           /\ roundTrip.val <= scaleIn.x

\* C20: scaleValue fails with InvalidInput, returning no value, for every negative
\* human amount; for a non-negative amount it returns the largest integer not
\* above amount * 10^decimals.
C20_NegativeRejectedElseTruncated ==
    scaled # NoBigNumber
        => IF scaleIn.human.mant < 0
           THEN scaled.status = "InvalidInput"
           ELSE /\ scaled.status = "value"
                /\ scaled.val >= 0
                /\ scaled.val * Pow10(scaleIn.human.scale)
                      <= scaleIn.human.mant * Pow10(scaleIn.humanDecimals)
                /\ (scaled.val + 1) * Pow10(scaleIn.human.scale)
                      > scaleIn.human.mant * Pow10(scaleIn.humanDecimals)

TestPoolInput ==
    [sqrtPriceX96 |-> TestSqrtPriceX96, token0Decimals |-> TestDecimals0,
     token1Decimals |-> TestDecimals1]

C22_PartialPoolNeverRaises ==
    aggPc # "in"
        => /\ aggPc # "threw"
           /\ \A k \in DOMAIN aggPools :
                \E e \in SeqRange(aggTokensMap) :
                    /\ e.symbol = aggPools[k].token0.symbol
                    /\ k \in SeqRange(e.pools)


\* the last n entries of a sequence
Last(seq, n) == SubSeq(seq, Len(seq) - n + 1, Len(seq))

\* C23: both token legs are validated against the token list before quoting: a
\* quote request directly follows the two token-list requests of its call and is
\* made only when both legs were found supported; when either leg is unsupported
\* (the list not fetched included) the result is "Route not supported" and the
\* step makes no quote request.
C23_LegsValidatedBeforeQuote ==
    [][\A s \in Slots :
          LET d == dir[s]
          IN  /\ Count(log'[s][d], "quote") > Count(log[s][d], "quote")
                 => /\ pc[s] = "ooOut"
                    /\ supportedIn'[s] /\ supportedOut'[s]
                    /\ Last(log'[s][d], 4) = <<"oo", "tokenList", "tokenList", "quote">>
              /\ (pc[s] = "ooOut" /\ pc'[s] # "ooOut" /\ (~supportedIn'[s] \/ ~supportedOut'[s]))
                 => /\ fees'[s][d] = RouteNotSupported
                    /\ log'[s][d] = log[s][d]
                    /\ pc'[s] # "ooQuote"]_vars

\* a request whose in leg passed, whose out leg failed and which ended without a quote
C23_Witness ==
    \E s \in Slots :
        /\ pc[s] = "done"
        /\ supportedIn[s] /\ ~supportedOut[s]
        /\ Last(log[s]["BE"], 3) = <<"oo", "tokenList", "tokenList">>
        /\ fees[s]["BE"] = RouteNotSupported


RECURSIVE RequestedSoFar(_)
\* the symbols of the requests sent so far, in the order sent
RequestedSoFar(k) ==
    IF k = 0 THEN <<>>
    ELSE IF netLog[k].kind = "get" THEN RequestedSoFar(k - 1) \o netLog[k].batch
    ELSE RequestedSoFar(k - 1)

\* C24: fetchChainPrices sends its requests one after another, in input order,
\* each with one to three symbols: requests and delays alternate, a request is
\* outstanding only while the function awaits it, the symbols requested so far
\* are a prefix of the input, and when the function has returned every symbol
\* was requested exactly once, in ceil(N/3) requests, with no delay after the last.
C24_SequentialBatches ==
    fpc \in {"await", "delay", "returned"}
        => /\ \A k \in DOMAIN netLog :
                /\ netLog[k].kind = (IF k % 2 = 1 THEN "get" ELSE "delay")
                /\ netLog[k].kind = "get" => Len(netLog[k].batch) \in 1..batchSize
           /\ RequestedSoFar(Len(netLog)) = SubSeq(symbols, 1, Len(RequestedSoFar(Len(netLog))))
           /\ fpc = "await" => Len(netLog) % 2 = 1
           /\ fpc = "delay" => Len(netLog) % 2 = 0 /\ Len(netLog) > 0
           /\ fpc = "returned"
                => /\ RequestedSoFar(Len(netLog)) = symbols
                   /\ GetCount(chain) = BatchCount
                   /\ Len(netLog) = IF BatchCount = 0 THEN 0 ELSE 2 * BatchCount - 1

\* seven symbols fetched in three requests with two delays between them
C24_Witness ==
    /\ fpc = "returned"
    /\ Len(symbols) = 2 * batchSize + 1
    /\ Len(netLog) = 5
    /\ netLog[5].kind = "get"
    /\ netLog[5].batch = <<symbols[2 * batchSize + 1]>>


\* C25: the two chains' discovery passes run concurrently and are joined before
\* the intersection, and the two chains' price passes run concurrently and are
\* joined before fee quoting: while fetchTokenPrices is resolving prices for a
\* non-empty list, the first request of both chains has been sent; a fee request
\* exists only when both price maps are complete; the common tokens are computed
\* only when both discoveries have resolved.
C25_PassesConcurrentAndJoined ==
    /\ (tpc \in {"eth", "base"} /\ Len(symbols) > 0)
          => GetCount("ethereum") >= 1 /\ GetCount("base") >= 1
    /\ (\E s \in Slots : pc[s] # "none")
          => tpc = "mapped" /\ DOMAIN results = SeqRange(symbols)
    /\ apc = "returned" => \A c \in Chains : dpc[c] = "resolved"


\* C26: the list getSortedTokens returns is non-increasing in total liquidity (no
\* token stands after one of strictly smaller liquidity) and holds each
\* aggregated symbol exactly once.
C26_RankingNonIncreasing ==
    aggPc = "sorted"
        => /\ \A i, j \in DOMAIN aggSorted :
                i < j => aggSorted[i].liquidity >= aggSorted[j].liquidity
           /\ Len(aggSorted) = Len(aggTokensMap)
           /\ \A e \in SeqRange(aggTokensMap) :
                Cardinality({k \in DOMAIN aggSorted : aggSorted[k].symbol = e.symbol}) = 1

\* three tokens, the last met having the most liquidity and two being tied
C26_Witness ==
    /\ aggPc = "sorted"
    /\ Len(aggSorted) = 3
    /\ aggSorted[1].symbol = aggTokensMap[3].symbol
    /\ aggSorted[1].liquidity > aggSorted[2].liquidity
    /\ aggSorted[2].liquidity = aggSorted[3].liquidity


RECURSIVE SumVolume(_)
SumVolume(legs) ==
    IF legs = {} THEN 0
    ELSE LET l == CHOOSE x \in legs : TRUE
         IN  volumeOf(aggPools[l[1]]) + SumVolume(legs \ {l})

\* the pools whose token0 and token1 have the same symbol
SameSymbolPools == {k \in DOMAIN aggPools : aggPools[k].token0.symbol = aggPools[k].token1.symbol}

\* C27: a pool whose token0 and token1 share a symbol is not de-duplicated: its
\* liquidity and its volume are added to the symbol's entry twice and its id is
\* in the entry's pools list twice, next to one contribution per leg of the other
\* pools, while the representative pool is still the first pool of the greatest
\* single-pool liquidity.
C27_SameSymbolPoolCountedTwice ==
    aggPc \in {"aggregated", "sorted"}
        => \A k \in SameSymbolPools :
            LET sym == aggPools[k].token0.symbol
                e == aggTokensMap[EncounterIndex(sym)]
                others == {l \in LegsOf(sym) : l[1] # k}
            IN  /\ Count(e.pools, k) = 2
                /\ Len(e.pools) = 2 + Cardinality(others)
                /\ e.liquidity = 2 * aggPools[k].liquidity + SumLiquidity(others)
                /\ e.volumeUSD = 2 * volumeOf(aggPools[k]) + SumVolume(others)
                /\ e.repPool.id = CHOOSE r \in MaxLiquidityPools(sym) :
                                    \A j \in MaxLiquidityPools(sym) : r <= j

\* a same-symbol pool of liquidity and volume 1 followed by a larger pool with
\* the symbol on one side
C27_Witness ==
    /\ aggPc = "aggregated"
    /\ Len(aggPools) = 2
    /\ SameSymbolPools = {1}
    /\ aggPools[1].liquidity = 1 /\ aggPools[1].volumeUSD = "1"
    /\ aggPools[2].liquidity = 2
    /\ aggTokensMap[1].pools = <<1, 1, 2>>
    /\ aggTokensMap[1].liquidity = 4
    /\ aggTokensMap[1].repPool.id = 2


\* the result of a direction of a returned request is Done or Exhausted
DoneOrExhausted(s, d) ==
    \/ pc[s] = "skipped"
    \/ InvalidPrice(priceOf(tok[s], d))
    \/ Usable(fees[s][d])
    \/ fees[s][d] = RouteNotSupported /\ Count(log[s][d], "oo") = 1

\* C28: every fee request terminates: a started request makes at most one
\* primary and one fallback attempt in each direction, and, every provider call
\* settling, it eventually returns with each direction Done (a usable result) or
\* Exhausted ("Route not supported" after the fallback was tried).
C28_RequestReachesDoneOrExhausted ==
    /\ [](\A r \in Requests :
            /\ Count(log[r[1]][r[2]], "hop") <= 1
            /\ Count(log[r[1]][r[2]], "oo") <= 1
            /\ \A e \in HopCalls \cup {"quote"} : Count(log[r[1]][r[2]], e) <= 1
            /\ Count(log[r[1]][r[2]], "tokenList") <= 2)
    /\ \A s \in Slots :
          (pc[s] = "start") ~> (Returned(s) /\ \A d \in Dirs : DoneOrExhausted(s, d))


\* C29: calculateHopSwapFees restores console.error on every exit path, so for
\* any number of overlapping calls and any interleaving console.error is the
\* original function whenever no call is between its silencing and its return.
C29_ConsoleErrorRestored ==
    (\A s \in Slots : pc[s] # "hopWait") => consoleError = "original"


\* the list a returned call built: one entry per requested symbol, in input order
BuiltBy(c, list) ==
    /\ ftp[c].pc = "returned"
    /\ Len(list) = Len(ftp[c].symbols)
    /\ \A k \in DOMAIN list :
        /\ list[k].index = k - 1
        /\ list[k].symbol = ftp[c].symbols[k]
        /\ list[k].ethPrice = ftp[c].ethPrices[list[k].symbol]
        /\ list[k].basePrice = ftp[c].basePrices[list[k].symbol]
        /\ list[k].feesEthToBase = NullRes
        /\ list[k].feesBaseToEth = NullRes

\* C30: commonTokensList is replaced only by a fetchTokenPrices call that
\* completes successfully, in the step in which it returns; a call that fails for
\* want of an API key leaves it as it was; and what getCommonTokens returns is
\* the initial empty list or the whole list of one returned call: one entry per
\* symbol of that call, in input order, with index i, that call's two prices
\* and null fee fields, whatever the overlap of the calls.
C30_ListFromOneCompletedCall ==
    /\ [](getCommonTokens = <<>> \/ \E c \in Calls : BuiltBy(c, getCommonTokens))
    /\ [][commonTokensList' # commonTokensList
            => \E c \in Calls : ftp[c].pc = "base" /\ ftp'[c].pc = "returned"]_vars
    /\ [][\A c \in Calls : (ftp[c].pc = "call" /\ ftp'[c].pc = "threw")
                               => commonTokensList' = commonTokensList]_vars

\* two overlapping calls with different symbol orders and prices: the call
\* started first returned last, and the list is its own
C30_Witness ==
    /\ \A c \in Calls : ftp[c].pc = "returned"
    /\ ftp[1].symbols = <<"USDC", "DAI">>
    /\ ftp[2].symbols = <<"DAI", "USDC">>
    /\ ftp[1].ethPrices["USDC"] # ftp[2].ethPrices["USDC"]
    /\ ftp[1].basePrices["DAI"] # ftp[1].ethPrices["DAI"]
    /\ BuiltBy(1, commonTokensList)
    /\ ~BuiltBy(2, commonTokensList)

====
